---- MODULE Spec2Model ----
(***************************************************************************)
(* vekk: a small-size-optimised vector.  Vekk<[T; N]> keeps its elements   *)
(* either inline (a u16 length and an array of N slots) or in a heap       *)
(* ThinVec.  The model follows src/src/lib.rs and src/src/iter.rs.         *)
(*                                                                         *)
(* Positions are 1-based here and 0-based in the source: slot k of the     *)
(* source is position k + 1 of the model.  Option<T> is a sequence of      *)
(* length at most one: None is <<>>, Some(x) is <<x>>.                     *)
(*                                                                         *)
(* Arrays, slices and vectors are kept run-length encoded, as a sequence   *)
(* of runs [v |-> item, n |-> repetitions] with n >= 1 and neighbouring    *)
(* runs of different items, so that an array of more than 65535 slots is a *)
(* small value.  The encoding is canonical: two encodings are equal        *)
(* exactly when the sequences of items are.                                *)
(***************************************************************************)
EXTENDS Integers, Sequences, FiniteSets, TLC

VARIABLES
    cap,    \* A::CAPACITY, the N of [T; N]; fixed per behaviour
    repr,   \* Vekk::repr: Inline {len, array} | Heap(vec) | moved out
    iter,   \* the iter::Iter made by into_iter, or NoIter
    op,     \* the last call made and what it returned
    origin, \* the constructor that made the container
    panicked, \* the last call panicked instead of returning
    other   \* the repr of a clone of the container, or NoClone

vars == <<cap, repr, iter, op, origin, panicked, other>>

----------------------------------------------------------------------------
(* Program constants *)

U16_MAX == 65535

Default == 0

NoUpper == -1

----------------------------------------------------------------------------
(* Bounds of the exploration *)

MaxCap == 3

MaxLen == 3

MaxItem == 1

MaxExtend == 2

Near == 1

----------------------------------------------------------------------------
(* Small helpers *)

Min(a, b) == IF a < b THEN a ELSE b

AsU16(n) == n % (U16_MAX + 1)

None == <<>>

Some(x) == <<x>>

WideCaps == {U16_MAX + 1, U16_MAX + 2}

Caps == (0..MaxCap) \cup WideCaps

IsWide(N) == N > U16_MAX

----------------------------------------------------------------------------
(* Run-length encoded sequences of items *)

\* n copies of v
Fill(v, n) == IF n <= 0 THEN <<>> ELSE <<[v |-> v, n |-> n]>>

RECURSIVE Length(_)
Length(s) == IF s = <<>> THEN 0 ELSE Head(s).n + Length(Tail(s))

\* s followed by t
Cat(s, t) ==
    IF s = <<>> THEN t
    ELSE IF t = <<>> THEN s
    ELSE IF s[Len(s)].v = Head(t).v
         THEN SubSeq(s, 1, Len(s) - 1)
              \o <<[v |-> Head(t).v, n |-> s[Len(s)].n + Head(t).n]>>
              \o Tail(t)
         ELSE s \o t

\* the first k items of s
RECURSIVE Take(_, _)
Take(s, k) ==
    IF k <= 0 \/ s = <<>> THEN <<>>
    ELSE IF Head(s).n >= k THEN Fill(Head(s).v, k)
    ELSE <<Head(s)>> \o Take(Tail(s), k - Head(s).n)

\* s without its first k items
RECURSIVE Drop(_, _)
Drop(s, k) ==
    IF s = <<>> THEN <<>>
    ELSE IF k <= 0 THEN s
    ELSE IF Head(s).n > k THEN <<[v |-> Head(s).v, n |-> Head(s).n - k]>> \o Tail(s)
    ELSE Drop(Tail(s), k - Head(s).n)

\* the items at positions a..b
Slice(s, a, b) == Take(Drop(s, a - 1), b - a + 1)

\* the item at position i, 1 <= i <= Length(s)
RECURSIVE At(_, _)
At(s, i) == IF i <= Head(s).n THEN Head(s).v ELSE At(Tail(s), i - Head(s).n)

\* s with the item at position i replaced by v, 1 <= i <= Length(s)
Store(s, i, v) == Cat(Cat(Take(s, i - 1), Fill(v, 1)), Drop(s, i))

\* the encoding of a plain sequence
RECURSIVE Runs(_)
Runs(q) == IF q = <<>> THEN <<>> ELSE Cat(Fill(Head(q), 1), Runs(Tail(q)))

----------------------------------------------------------------------------
(* Representations *)

Inline(len, array) == [tag |-> "Inline", len |-> len, array |-> array]

Heap(vec) == [tag |-> "Heap", vec |-> vec]

Moved == [tag |-> "Moved"]

NoIter == [tag |-> "NoIter"]

NoClone == [tag |-> "NoClone"]

ArrayDefault(N) == Fill(Default, N)

inline_capacity(N) == Min(N, U16_MAX)

len(r) ==
    IF r.tag = "Inline" THEN r.len
    ELSE IF r.tag = "Heap" THEN Length(r.vec)
    ELSE 0

as_slice(r) ==
    IF r.tag = "Inline" THEN Take(r.array, r.len)
    ELSE IF r.tag = "Heap" THEN r.vec
    ELSE <<>>

VekkDefault(N) == Inline(0, ArrayDefault(N))

----------------------------------------------------------------------------
(* ThinVec operations the container delegates to *)

VecPush(vec, item) == Cat(vec, Fill(item, 1))

VecInsert(vec, index, element) ==
    Cat(Cat(Take(vec, index), Fill(element, 1)), Drop(vec, index))

VecPopRet(vec) == IF vec = <<>> THEN None ELSE Some(At(vec, Length(vec)))

VecPop(vec) == Take(vec, Length(vec) - 1)

----------------------------------------------------------------------------
(* impl Vekk *)

\* The loop pushes mem::take of every slot of the array, whatever the live
\* length is: the vector is the whole array, in slot order.
thinvec_from_array(array) == Take(array, Length(array))

\* push_inner with the promotion test against A::CAPACITY instead of
\* inline_capacity()
push_inner_at_capacity(N, r, item) ==
    IF r.tag = "Inline"
    THEN IF r.len = N
         THEN Heap(VecPush(thinvec_from_array(r.array), item))
         ELSE Inline(AsU16(r.len + 1), Store(r.array, r.len + 1, item))
    ELSE Heap(VecPush(r.vec, item))

push_inner(N, r, item) ==
    IF r.tag = "Inline"
    THEN IF r.len = inline_capacity(N)
         THEN Heap(VecPush(thinvec_from_array(r.array), item))
         ELSE Inline(AsU16(r.len + 1), Store(r.array, r.len + 1, item))
    ELSE Heap(VecPush(r.vec, item))

push(N, r, item) == push_inner(N, r, item)

RECURSIVE extend(_, _, _)
extend(N, r, items) ==
    IF items = <<>> THEN r
    ELSE extend(N, push_inner(N, r, Head(items)), Tail(items))

pop_ret(r) ==
    IF r.tag = "Inline"
    THEN IF r.len > 0 THEN Some(At(r.array, r.len)) ELSE None
    ELSE VecPopRet(r.vec)

\* pop with the Inline arm's `*len -= 1` left out
pop_keeps_len(N, r) ==
    IF r.tag = "Inline"
    THEN IF r.len > 0 THEN Inline(r.len, Store(r.array, r.len, Default)) ELSE r
    ELSE Heap(VecPop(r.vec))

\* pop with a Heap arm that moves back inline once the elements fit
pop_demotes(N, r) ==
    IF r.tag = "Inline"
    THEN IF r.len > 0
         THEN Inline(AsU16(r.len - 1), Store(r.array, r.len, Default))
         ELSE r
    ELSE IF Length(VecPop(r.vec)) <= inline_capacity(N)
         THEN Inline(AsU16(Length(VecPop(r.vec))),
                     Cat(VecPop(r.vec), Fill(Default, N - Length(VecPop(r.vec)))))
         ELSE Heap(VecPop(r.vec))

pop(N, r) ==
    IF r.tag = "Inline"
    THEN IF r.len > 0
         THEN Inline(AsU16(r.len - 1), Store(r.array, r.len, Default))
         ELSE r
    ELSE Heap(VecPop(r.vec))

\* slice.swap(idx, idx + 1), idx counted from 0
swap(slice, idx) ==
    Store(Store(slice, idx + 1, At(slice, idx + 2)), idx + 2, At(slice, idx + 1))

\* for idx in index..len { slice.swap(idx, idx + 1) }
RECURSIVE swap_loop(_, _, _)
swap_loop(slice, idx, end) ==
    IF idx >= end THEN slice
    ELSE swap_loop(swap(slice, idx), idx + 1, end)

insert(N, r, index, element) ==
    IF r.tag = "Inline"
    THEN IF r.len = inline_capacity(N)
         THEN Heap(VecInsert(thinvec_from_array(r.array), index, element))
         ELSE Inline(AsU16(r.len + 1),
                     Store(swap_loop(r.array, index, r.len), index + 1, element))
    ELSE Heap(VecInsert(r.vec, index, element))

\* insert panics instead of returning: vec.insert(index, _) on a vector
\* shorter than index, or slice[index] past the end of the array
insert_panics(N, r, index) ==
    IF r.tag = "Inline"
    THEN IF r.len = inline_capacity(N)
         THEN index > Length(thinvec_from_array(r.array))
         ELSE index >= Length(r.array)
    ELSE index > Length(r.vec)

\* what a panicking insert leaves behind: in the promotion arm the array has
\* been emptied by thinvec_from_array and self.repr is not yet assigned
insert_unwound(N, r, index) ==
    IF r.tag = "Inline" /\ r.len = inline_capacity(N)
    THEN Inline(r.len, Fill(Default, Length(r.array)))
    ELSE r

\* impl Clone for Repr<A>, with an Inline arm that forgets the length
clone_forgets_len(r) ==
    IF r.tag = "Inline" THEN Inline(0, r.array) ELSE Heap(r.vec)

\* impl Clone for Vekk<A> and for Repr<A>: the length and a copy of the
\* array, or a copy of the vector
clone(r) ==
    IF r.tag = "Inline" THEN Inline(r.len, r.array) ELSE Heap(r.vec)

\* impl From<A> for Vekk<A>
from_array(N, value) == Inline(AsU16(N), value)

\* from_iter with the size hint tested by `upper >= A::CAPACITY`
from_iter_hint_at_least(N, items, upper) ==
    IF upper # NoUpper /\ upper >= N
    THEN Heap(items)
    ELSE LET filled == Min(Length(items), inline_capacity(N))
             array == Cat(Take(items, filled), Drop(ArrayDefault(N), filled))
         IN IF Length(items) > filled
            THEN Heap(Cat(array, Drop(items, filled + 1)))
            ELSE Inline(AsU16(filled), array)

\* impl FromIterator for Vekk<A>.  The iterator is given by the items it
\* yields and the upper bound of its size hint (NoUpper for None).
\* The while loop stores the first `filled` items; when a further item
\* arrives with len >= inline_capacity it builds the vector from the whole
\* array and the rest of the iterator, the item in hand being pushed nowhere.
from_iter(N, items, upper) ==
    IF upper # NoUpper /\ upper > N
    THEN Heap(items)
    ELSE LET filled == Min(Length(items), inline_capacity(N))
             array == Cat(Take(items, filled), Drop(ArrayDefault(N), filled))
         IN IF Length(items) > filled
            THEN Heap(Cat(array, Drop(items, filled + 1)))
            ELSE Inline(AsU16(filled), array)

\* impl From<Vec> for Vekk<A>: vec::IntoIter reports its exact length
from_vec(N, value) == from_iter(N, value, Length(value))

----------------------------------------------------------------------------
(* iter.rs *)

InlineIter(pos, length, array) ==
    [tag |-> "Inline", pos |-> pos, len |-> length, array |-> array]

\* thin_vec::IntoIter: the vector and the index of the next item
HeapIter(vec, start) == [tag |-> "Heap", vec |-> vec, start |-> start]

\* into_iter with the array's capacity taken for the live length
into_iter_whole_array(r) ==
    IF r.tag = "Inline" THEN InlineIter(0, AsU16(Length(r.array)), r.array)
    ELSE HeapIter(r.vec, 0)

into_iter(r) ==
    IF r.tag = "Inline" THEN InlineIter(0, r.len, r.array) ELSE HeapIter(r.vec, 0)

next_ret(it) ==
    IF it.tag = "Inline"
    THEN IF it.pos = it.len THEN None ELSE Some(At(it.array, it.pos + 1))
    ELSE IF it.start = Length(it.vec) THEN None ELSE Some(At(it.vec, it.start + 1))

\* next with its `self.pos == self.len` test left out
next_always_advances(it) ==
    IF it.tag = "Inline"
    THEN InlineIter(AsU16(it.pos + 1), it.len,
                    Store(it.array, it.pos + 1, Default))
    ELSE IF it.start = Length(it.vec) THEN it
         ELSE HeapIter(it.vec, it.start + 1)

next(it) ==
    IF it.tag = "Inline"
    THEN IF it.pos = it.len THEN it
         ELSE InlineIter(AsU16(it.pos + 1), it.len,
                         Store(it.array, it.pos + 1, Default))
    ELSE IF it.start = Length(it.vec) THEN it
         ELSE HeapIter(it.vec, it.start + 1)

\* the items the iterator has yet to yield
Unyielded(it) ==
    IF it.tag = "Inline" THEN it.len - it.pos ELSE Length(it.vec) - it.start

\* next called k times in a row, k <= Unyielded(it): each call takes the
\* slot at pos and moves pos on by one
next_times(it, k) ==
    IF it.tag = "Inline"
    THEN InlineIter(AsU16(it.pos + k), it.len,
                    Cat(Cat(Take(it.array, it.pos), Fill(Default, k)),
                        Drop(it.array, it.pos + k)))
    ELSE HeapIter(it.vec, it.start + k)

\* (lower, upper) of the size hint
size_hint(it) ==
    IF it.tag = "Inline"
    THEN LET remaining == AsU16(it.len - it.pos) IN <<remaining, remaining>>
    ELSE <<Length(it.vec) - it.start, Length(it.vec) - it.start>>

\* what the iterator yields when driven until it returns None
drain(it) ==
    IF it.tag = "Inline"
    THEN Slice(it.array, it.pos + 1, it.len)
    ELSE Drop(it.vec, it.start)

\* v.into_iter().collect()
round_trip(N, r) ==
    LET it == into_iter(r) IN from_iter(N, drain(it), size_hint(it)[2])

----------------------------------------------------------------------------
(* Inputs of the calls *)

Item == 0..MaxItem

\* how many steps from a boundary (empty, or the largest u16 for a wide
\* array) the exploration goes
Reach(N) == IF IsWide(N) THEN Near ELSE MaxLen

PlainSeqs(n) == UNION {[1..k -> Item] : k \in 0..n}

\* a long input without a Default in it, its last item unlike the others
LongSeq(L) == Cat(Fill(1, L - 1), Fill(2, 1))

WideLens(N) == (U16_MAX - Near + 1)..(N + Near)

IterInputs(N) ==
    {Runs(q) : q \in PlainSeqs(Reach(N))}
    \cup (IF IsWide(N) THEN {LongSeq(L) : L \in WideLens(N)} ELSE {})

\* upper bounds an iterator of these items may report: none, the exact
\* count, a loose one, and one that is not greater than N when that is true
UpperHints(N, items) ==
    {NoUpper, Length(items), Length(items) + 1}
    \cup (IF Length(items) <= N THEN {N} ELSE {})

ArrayInputs(N) ==
    IF IsWide(N) THEN {LongSeq(N)} ELSE {Runs(q) : q \in [1..N -> Item]}

ExtendInputs(N) == PlainSeqs(Min(MaxExtend, Reach(N)))

\* insert positions: the last Reach(N) + 1 of the valid ones
Indexes(N, n) == (IF n > Reach(N) THEN n - Reach(N) ELSE 0)..n

\* lengths the exploration keeps: short ones, and for a wide array the ones
\* around the largest u16
Explored(N, n) ==
    \/ n <= Reach(N)
    \/ IsWide(N) /\ n >= U16_MAX - Near /\ n <= N + 1 + Near

\* insert positions past the end: the next two, and the first two past the
\* array
OutOfRange(N, n) == {i \in {n + 1, n + 2, N, N + 1} : i > n}

\* The exploration ends at an insert past the end: whether it panicked or
\* returned, the calls that follow are outside every contract.
\* Once a clone is made the exploration makes one more call, on the
\* container or on the clone.
Live ==
    /\ repr.tag \in {"Inline", "Heap"}
    /\ op.name # "insert_out_of_range"
    /\ other = NoClone \/ op.name = "clone"

Call(name, index, item, items, ret) ==
    [name |-> name, was |-> repr.tag, index |-> index, item |-> item,
     items |-> items, ret |-> ret]

----------------------------------------------------------------------------
(* The state machine *)

Init ==
    /\ cap \in Caps
    /\ repr = VekkDefault(cap)
    /\ iter = NoIter
    /\ op = [name |-> "default", was |-> "Moved", index |-> 0, item |-> Default,
             items |-> <<>>, ret |-> None]
    /\ origin = "default"
    /\ panicked = FALSE
    /\ other = NoClone

\* A constructor's result does not depend on the value it replaces: it is
\* taken from the initial state only.
Fresh == op.name = "default"

Built(r, call) ==
    /\ Explored(cap, len(r))
    /\ repr' = r
    /\ iter' = NoIter
    /\ op' = call
    /\ origin' = call.name
    /\ UNCHANGED <<cap, panicked, other>>

\* For a wide array the exploration makes one growing call per construction
\* (after any pops) and only reads the container afterwards.
Settled == IsWide(cap) /\ op.name \in {"push", "extend", "insert", "round_trip"}

Mutated(r, call) ==
    /\ Live
    /\ ~Settled
    /\ Explored(cap, len(r))
    /\ repr' = r
    /\ op' = call
    /\ UNCHANGED <<cap, iter, origin, panicked, other>>

FromArray ==
    /\ Fresh
    /\ \E value \in ArrayInputs(cap) :
        Built(from_array(cap, value), Call("from_array", 0, Default, value, None))

FromVec ==
    /\ Fresh
    /\ \E value \in IterInputs(cap) :
        Built(from_vec(cap, value),
              Call("from_vec", Length(value), Default, value, None))

Collect ==
    /\ Fresh
    /\ \E items \in IterInputs(cap) :
        \E upper \in UpperHints(cap, items) :
            Built(from_iter(cap, items, upper),
                  Call("collect", upper, Default, items, None))

Push ==
    \E item \in Item :
        Mutated(push(cap, repr, item), Call("push", 0, item, <<>>, None))

Extend ==
    \E items \in ExtendInputs(cap) :
        Mutated(extend(cap, repr, items),
                Call("extend", 0, Default, Runs(items), None))

Pop == Mutated(pop(cap, repr), Call("pop", 0, Default, <<>>, pop_ret(repr)))

Insert ==
    \E index \in Indexes(cap, len(repr)) :
        \E element \in Item :
            Mutated(insert(cap, repr, index, element),
                    Call("insert", index, element, <<>>, None))

\* insert(index, element) with index > len()
InsertOutOfRange ==
    /\ Live
    /\ ~Settled
    /\ \E index \in OutOfRange(cap, len(repr)) :
        \E element \in Item :
            /\ panicked' = insert_panics(cap, repr, index)
            /\ repr' = IF insert_panics(cap, repr, index)
                       THEN insert_unwound(cap, repr, index)
                       ELSE insert(cap, repr, index, element)
            /\ op' = Call("insert_out_of_range", index, element, <<>>, None)
            /\ UNCHANGED <<cap, iter, origin, other>>

RoundTrip ==
    /\ Live
    /\ op.name # "round_trip"
    /\ Built(round_trip(cap, repr), Call("round_trip", 0, Default, <<>>, None))

IntoIter ==
    /\ Live
    /\ iter' = into_iter(repr)
    /\ repr' = Moved
    /\ op' = Call("into_iter", 0, Default, <<>>, None)
    /\ UNCHANGED <<cap, origin, panicked, other>>

Consumed(it) == IF it.tag = "Inline" THEN it.pos ELSE it.start

\* for _ in 0..k { iter.next(); } on a fresh iterator of many items, k such
\* that Near items are left
IterAdvance ==
    /\ iter.tag # "NoIter"
    /\ op.name = "into_iter"
    /\ Unyielded(iter) > Reach(cap) + 1
    /\ iter' = next_times(iter, Unyielded(iter) - Near)
    /\ op' = Call("advance", Unyielded(iter) - Near, Default, <<>>, None)
    /\ UNCHANGED <<cap, repr, origin, panicked, other>>

IterNext ==
    /\ iter.tag # "NoIter"
    /\ Consumed(iter) <= Reach(cap) \/ Unyielded(iter) <= Reach(cap)
    /\ iter' = next(iter)
    /\ op' = Call("next", 0, Default, <<>>, next_ret(iter))
    /\ UNCHANGED <<cap, repr, origin, panicked, other>>

Next ==
    \/ FromArray
    \/ FromVec
    \/ Collect
    \/ Push
    \/ Extend
    \/ Pop
    \/ Insert
    \/ InsertOutOfRange
    \/ RoundTrip
    \/ IntoIter
    \/ IterAdvance
    \/ IterNext

Spec == Init /\ [][Next]_vars

\* let b = a.clone()
Clone ==
    /\ Live
    /\ other = NoClone
    /\ other' = clone(repr)
    /\ op' = Call("clone", 0, Default, <<>>, None)
    /\ UNCHANGED <<cap, repr, iter, origin, panicked>>

\* what a call on the clone may leave it as
CloneCalls(N, r) ==
    {push(N, r, item) : item \in Item}
    \cup {pop(N, r)}
    \cup {insert(N, r, index, element) :
            index \in Indexes(N, len(r)), element \in Item}

\* b.push(item), b.pop() or b.insert(index, element) on the clone
OnClone ==
    /\ other # NoClone
    /\ op.name = "clone"
    /\ \E r \in CloneCalls(cap, other) :
        /\ Explored(cap, len(r))
        /\ other' = r
    /\ op' = Call("on_clone", 0, Default, <<>>, None)
    /\ UNCHANGED <<cap, repr, iter, origin, panicked>>

NextClone ==
    \/ Next
    \/ Clone
    \/ OnClone

SpecClone == Init /\ [][NextClone]_vars

----------------------------------------------------------------------------
(* Properties *)

Mutators == {"push", "insert", "pop", "extend"}

\* what the call does to a plain vector
VecStep(s, call) ==
    CASE call.name = "push" -> VecPush(s, call.item)
      [] call.name = "insert" -> VecInsert(s, call.index, call.item)
      [] call.name = "pop" -> VecPop(s)
      [] call.name = "extend" -> Cat(s, call.items)
      [] OTHER -> s

\* C1: on a container that started empty, every push, insert, pop and extend
\* changes as_slice and len as the same call changes a plain vector, and
\* pop returns what the vector's pop returns, whatever the capacity N.
C1_RepresentationIndependence ==
    [][(origin = "default" /\ op'.name \in Mutators) =>
        /\ as_slice(repr') = VecStep(as_slice(repr), op')
        /\ len(repr') = Length(VecStep(as_slice(repr), op'))
        /\ (op'.name = "pop" => op'.ret = VecPopRet(as_slice(repr)))]_vars

\* C2: insert(i, e) on an Inline container below its capacity leaves it
\* Inline, one longer, with e at position i and the old elements around it
\* in their old order.
C2_InsertBelowCapacity ==
    [][(op'.name = "insert" /\ repr.tag = "Inline"
            /\ repr.len < inline_capacity(cap)) =>
        /\ repr'.tag = "Inline"
        /\ repr'.len = repr.len + 1
        /\ as_slice(repr') = VecInsert(as_slice(repr), op'.index, op'.item)]_vars

\* C3: a container built from a sequence longer than min(N, 65535) is Heap
\* and shows exactly the sequence, whatever upper bound the hint reported.
C3_FromLongSequence ==
    (op.name \in {"collect", "from_vec"}
        /\ Length(op.items) > inline_capacity(cap)) =>
        /\ repr.tag = "Heap"
        /\ as_slice(repr) = op.items

\* C4: a container built from a sequence of at most min(N, 65535) items is
\* Inline, as long as the sequence and shows it, whatever the hint reported.
C4_FromShortSequence ==
    (op.name \in {"collect", "from_vec"}
        /\ Length(op.items) <= inline_capacity(cap)) =>
        /\ repr.tag = "Inline"
        /\ repr.len = Length(op.items)
        /\ as_slice(repr) = op.items

\* C5: push(x) keeps an Inline container below capacity Inline, makes a full
\* Inline container Heap, keeps a Heap container Heap, and always appends x
\* to the visible contents, len growing by one.
C5_Push ==
    [][op'.name = "push" =>
        /\ repr'.tag = (IF repr.tag = "Inline" /\ repr.len < inline_capacity(cap)
                        THEN "Inline" ELSE "Heap")
        /\ as_slice(repr') = VecPush(as_slice(repr), op'.item)
        /\ len(repr') = len(repr) + 1]_vars

\* C6: pop returns the last visible element and removes it; on an empty
\* container, Inline or Heap, it returns None and changes nothing.
C6_Pop ==
    [][op'.name = "pop" =>
        IF as_slice(repr) = <<>>
        THEN op'.ret = None /\ repr' = repr
        ELSE /\ op'.ret = Some(At(as_slice(repr), Length(as_slice(repr))))
             /\ as_slice(repr') = Take(as_slice(repr), Length(as_slice(repr)) - 1)
             /\ len(repr') = len(repr) - 1
             /\ repr'.tag = repr.tag]_vars

C6_Witness ==
    /\ op.name = "pop"
    /\ op.ret = None
    /\ repr.tag = "Heap"

\* C7: push, insert, pop and extend never take a Heap container back to
\* Inline: the only change of representation they make is Inline to Heap.
C7_OneWayPromotion ==
    [][op'.name \in Mutators =>
        /\ repr.tag = "Heap" => repr'.tag = "Heap"
        /\ repr'.tag \in {repr.tag, "Heap"}]_vars

C7_Witness ==
    /\ op.name = "pop"
    /\ op.was = "Heap"
    /\ repr.tag = "Heap"
    /\ len(repr) = 0
    /\ cap > 0

\* C8: a container made from an array of N elements is Inline, has length N
\* and shows the N elements in order.
C8_FromArray ==
    op.name = "from_array" =>
        /\ repr.tag = "Inline"
        /\ repr.len = cap
        /\ as_slice(repr) = op.items

\* C9: into_iter yields the visible elements once each in slice order and
\* then None on every further call, with an exact size hint at every step,
\* for an Inline and for a Heap container alike.
C9_OwnedIteration ==
    [][/\ op'.name = "into_iter" => drain(iter') = as_slice(repr)
       /\ iter'.tag # "NoIter" =>
            size_hint(iter') = <<Length(drain(iter')), Length(drain(iter'))>>
       /\ op'.name = "next" =>
            IF drain(iter) = <<>>
            THEN op'.ret = None /\ iter' = iter
            ELSE /\ op'.ret = Some(At(drain(iter), 1))
                 /\ drain(iter') = Drop(drain(iter), 1)]_vars

C9_Witness ==
    /\ op.name = "next"
    /\ op.ret = None
    /\ Consumed(iter) >= 2

\* C10: v.into_iter().collect() shows the contents v had, in the same order.
C10_RoundTrip ==
    [][op'.name = "round_trip" => as_slice(repr') = as_slice(repr)]_vars

\* C11: insert(index, e) with index greater than the length panics, for an
\* Inline and for a Heap container: no such call returns.
C11_InsertOutOfRange ==
    [][op'.name = "insert_out_of_range" => panicked']_vars

\* push called once for each item of a sequence, in its order
RECURSIVE push_each(_, _, _)
push_each(N, r, items) ==
    IF items = <<>> THEN r
    ELSE push_each(N, push(N, r, At(items, 1)), Drop(items, 1))

\* C12: extend(seq) leaves the container as one push per item of seq, in
\* the order of seq, leaves it (same representation, length and contents),
\* and the visible contents are the old ones followed by seq.
C12_ExtendIsRepeatedPush ==
    [][op'.name = "extend" =>
        /\ repr' = push_each(cap, repr, op'.items)
        /\ as_slice(repr') = Cat(as_slice(repr), op'.items)
        /\ len(repr') = len(repr) + Length(op'.items)]_vars

\* C13: a clone has the representation, length and contents of the
\* container it was made from; a push, insert or pop on the container
\* leaves the clone as it was, and one on the clone leaves the container
\* as it was.
C13_CloneIndependence ==
    [][/\ op'.name = "clone" =>
            /\ repr' = repr
            /\ other'.tag = repr.tag
            /\ len(other') = len(repr)
            /\ as_slice(other') = as_slice(repr)
       /\ (other # NoClone /\ op'.name \in {"push", "insert", "pop"}) =>
            other' = other
       /\ op'.name = "on_clone" => repr' = repr]_vars

C13_Witness ==
    /\ op.name = "on_clone"
    /\ repr.tag = "Heap"
    /\ other.tag = "Heap"
    /\ as_slice(other) # as_slice(repr)
    /\ len(repr) > 0

\* C15: insert(i, e) on an Inline container whose length is min(N, 65535)
\* makes it Heap and shows the old contents with e put in at position i;
\* an insert on a shorter Inline container leaves it Inline and one longer,
\* so that a chain of inserts from empty promotes at insert min(N, 65535) + 1
\* and not before.
C15_InsertAtCapacity ==
    [][(op'.name = "insert" /\ repr.tag = "Inline") =>
        IF repr.len = inline_capacity(cap)
        THEN /\ repr'.tag = "Heap"
             /\ as_slice(repr') = VecInsert(as_slice(repr), op'.index, op'.item)
        ELSE /\ repr'.tag = "Inline"
             /\ repr'.len = repr.len + 1]_vars

\* C16: with N > 65535, a push or insert on an Inline container of length
\* 65535 makes it Heap, and the vector holds the 65535 old elements in order
\* and the new one, nothing else: len() is 65536.
C16_PromotionAtLengthCap ==
    [][(cap > U16_MAX /\ op'.name \in {"push", "insert"}
            /\ repr.tag = "Inline" /\ repr.len = U16_MAX) =>
        /\ repr'.tag = "Heap"
        /\ as_slice(repr') = VecStep(as_slice(repr), op')
        /\ len(repr') = U16_MAX + 1]_vars

\* C17: an Inline container's length is between 0 and min(N, 65535) in
\* every state, and the 16-bit length never wraps: a push or insert that
\* leaves the container Inline makes it exactly one longer, an extend as
\* much longer as it has items, and a pop one shorter or, when empty, no
\* shorter.
C17_InlineLength ==
    [][/\ repr.tag = "Inline" => repr.len \in 0..inline_capacity(cap)
       /\ repr'.tag = "Inline" => repr'.len \in 0..inline_capacity(cap)
       /\ (op'.name \in {"push", "insert"} /\ repr'.tag = "Inline") =>
            repr'.len = repr.len + 1
       /\ (op'.name = "extend" /\ repr'.tag = "Inline") =>
            repr'.len = repr.len + Length(op'.items)
       /\ (op'.name = "pop" /\ repr.tag = "Inline") =>
            repr'.len = (IF repr.len = 0 THEN 0 ELSE repr.len - 1)]_vars

C17_Witness ==
    /\ cap > U16_MAX
    /\ op.name = "push"
    /\ repr.tag = "Inline"
    /\ repr.len = U16_MAX

Constructors == {"from_array", "from_vec", "collect"}

\* how many items of s are the placeholder value
RECURSIVE Placeholders(_)
Placeholders(s) ==
    IF s = <<>> THEN 0
    ELSE (IF Head(s).v = Default THEN Head(s).n ELSE 0) + Placeholders(Tail(s))

\* C18: after a constructor, push, insert, pop or extend that leaves the
\* container Inline, every slot from position len on holds the placeholder,
\* and the slots before len hold no placeholder but those the caller gave:
\* as many as the items built from hold, or as the same call leaves in a
\* plain vector.
C18_Placeholders ==
    [][(repr'.tag = "Inline" /\ op'.name \in Constructors \cup Mutators) =>
        /\ Drop(repr'.array, repr'.len)
             = Fill(Default, Length(repr'.array) - repr'.len)
        /\ Placeholders(as_slice(repr'))
             = (IF op'.name \in Constructors
                THEN Placeholders(op'.items)
                ELSE Placeholders(VecStep(as_slice(repr), op')))]_vars

\* C19: a container built from a sequence whose size hint is its exact
\* length L (a Vec, an array's iterator) is Inline when L <= min(N, 65535)
\* and Heap when L > min(N, 65535), for every N, 0 included.
C19_ExactHintRepresentation ==
    (op.name = "from_vec"
        \/ (op.name = "collect" /\ op.index = Length(op.items))) =>
        repr.tag = (IF Length(op.items) <= inline_capacity(cap)
                    THEN "Inline" ELSE "Heap")

C19_Witness ==
    /\ op.name = "from_vec"
    /\ cap > U16_MAX
    /\ Length(op.items) > U16_MAX
    /\ Length(op.items) <= cap
    /\ repr.tag = "Heap"

\* C20: an Inline iterator has 0 <= pos <= len in every state; into_iter
\* starts it at pos 0 with the container's length, which next never
\* changes; next moves pos on by exactly one while pos < len and leaves it
\* once pos = len, so len - pos and pos + 1 stay within 16 bits and the size
\* hint is len - pos.
C20_InlineCursor ==
    [][/\ iter.tag = "Inline" => iter.pos \in 0..iter.len
       /\ iter'.tag = "Inline" =>
            /\ iter'.pos \in 0..iter'.len
            /\ iter'.len \in 0..U16_MAX
            /\ size_hint(iter') = <<iter'.len - iter'.pos, iter'.len - iter'.pos>>
       /\ (op'.name = "into_iter" /\ repr.tag = "Inline") =>
            iter'.pos = 0 /\ iter'.len = repr.len
       /\ (op'.name = "next" /\ iter.tag = "Inline") =>
            /\ iter'.len = iter.len
            /\ iter'.pos = (IF iter.pos < iter.len THEN iter.pos + 1 ELSE iter.pos)]_vars

C20_Witness ==
    /\ iter.tag = "Inline"
    /\ op.name = "next"
    /\ op.ret = None
    /\ iter.pos = U16_MAX
    /\ iter.len = U16_MAX

====
